---------------------------- MODULE Spec2Model ----------------------------
(***************************************************************************)
(* UserProfileDBRepository (src/profile.py): the profile repository's      *)
(* lookups, writes, suggested-user and faceted search queries and their    *)
(* pagination, over a relational database of profiles, educations, awards  *)
(* and colleges.  Each coroutine is a sequence of steps, one per await.    *)
(***************************************************************************)
EXTENDS Integers, Sequences, FiniteSets, TLC

VARIABLES
    db,         \* the committed database: table name -> set of rows
    pc,         \* caller -> the await its coroutine is suspended at
    req,        \* caller -> the operation it runs, its arguments and locals
    session,    \* caller -> number of database sessions it holds open
    executed,   \* caller -> statements its operation has executed so far
    res,        \* caller -> how its last operation ended, and its value
    lastCreate  \* the entity of the last operation to end, if that was a
                \* successful create_profile; Null otherwise

vars == <<db, pc, req, session, executed, res, lastCreate>>

\* Bounds of the model.
MaxPage == 2
MaxPageSize == 2
MaxTextLen == 3
MaxEducations == 2
MaxAwards == 2

(***************************************************************************)
(* Relational data and the SQL subset the repository's queries use.        *)
(***************************************************************************)

\* SQL NULL / Python None for a whole row or an object.
Null == [null |-> TRUE]

\* SQL NULL for a column; every filterable column of the model is text (ids
\* are UUID strings).
NullStr == "NULL"

\* The tables a query of this module can name.
Tables == {"UserProfile", "Education", "Award", "CollegeUniversities"}

\* A row of the FROM clause before any join: the profile alone.
BaseRow(p) == [t \in Tables |-> IF t = "UserProfile" THEN p ELSE Null]

\* A row of the FROM clause holding only the row t of table tbl (the unmatched
\* right side of a FULL OUTER JOIN).
RightOnlyRow(tbl, t) == [x \in Tables |-> IF x = tbl THEN t ELSE Null]

\* The ON clause of a join j against joined row r and candidate row t:
\* t[table_id] = UserProfile[profile_col], AND deleted != True when the join
\* states it, AND is_current = True when the join states it.  A comparison with
\* NULL is not true.
JoinOn(j, r, t) ==
    /\ r["UserProfile"] # Null
    /\ t[j.table_id] = r["UserProfile"][j.profile_col]
    /\ (j.not_deleted => t.deleted # TRUE)
    /\ (j.current => t.is_current = TRUE)

\* rows JOIN store[j.table] ON JoinOn: LEFT OUTER, or FULL OUTER when j.full.
Join(rows, j, store) ==
    LET T == store[j.table]
        matched == { [pr[1] EXCEPT ![j.table] = pr[2]] :
                        pr \in { q \in rows \X T : JoinOn(j, q[1], q[2]) } }
        leftOnly == { r \in rows : \A t \in T : ~JoinOn(j, r, t) }
        rightOnly == IF j.full
                     THEN { RightOnlyRow(j.table, t) :
                              t \in { u \in T : \A r \in rows : ~JoinOn(j, r, u) } }
                     ELSE {}
    IN matched \cup leftOnly \cup rightOnly

\* The FROM clause: the profile table joined with each join of js in order.
RECURSIVE FromRows(_, _, _)
FromRows(rows, js, store) ==
    IF js = <<>> THEN rows
    ELSE FromRows(Join(rows, Head(js), store), Tail(js), store)

\* column IN (values) on the row of c.table; NULL IN (...) is not true.
CondTrue(c, r) ==
    /\ r[c.table] # Null
    /\ r[c.table][c.field] # NullStr
    /\ r[c.table][c.field] \in c.values

(***************************************************************************)
(* Text: a str is a sequence of one-character strings.                     *)
(***************************************************************************)

\* str.isalnum() on the characters the model draws text from.
IsAlnum(c) == c \in {"a", "b"}

IsPrefix(s, w) == Len(s) <= Len(w) /\ SubSeq(w, 1, Len(s)) = s

\* The pieces of s between occurrences of sep, empty pieces included.
RECURSIVE SplitOn(_, _)
SplitOn(s, sep) ==
    IF s = <<>> THEN << <<>> >>
    ELSE LET rest == SplitOn(Tail(s), sep)
         IN IF Head(s) = sep
            THEN << <<>> >> \o rest
            ELSE << <<Head(s)>> \o Head(rest) >> \o Tail(rest)

\* str.split(): the maximal runs of non-whitespace characters.
IsNonEmpty(s) == s # <<>>
Split(s) == SelectSeq(SplitOn(s, " "), IsNonEmpty)

\* sep.join(parts)
RECURSIVE JoinWith(_, _)
JoinWith(parts, sep) ==
    IF parts = <<>> THEN <<>>
    ELSE IF Len(parts) = 1 THEN Head(parts)
    ELSE Head(parts) \o <<sep>> \o JoinWith(Tail(parts), sep)

\* The characters get_suggested_users keeps.
IsKept(c) == IsAlnum(c) \/ c \in {".", "-", " "}

\* The tsquery text get_suggested_users hands to match(): the sanitized text's
\* tokens joined with "&", followed by ":*".
SuggestedTsQueryText(text) ==
    JoinWith(Split(SelectSeq(text, IsKept)), "&") \o <<":", "*">>

\* One operand of a tsquery: a lexeme, with the prefix flag when ":*" follows it.
TsOperand(s) ==
    IF Len(s) >= 2 /\ SubSeq(s, Len(s) - 1, Len(s)) = <<":", "*">>
    THEN [lexeme |-> SubSeq(s, 1, Len(s) - 2), prefix |-> TRUE]
    ELSE [lexeme |-> s, prefix |-> FALSE]

\* to_tsquery(text): the operands of an "&"-joined expression; not ok when an
\* operand has no lexeme (the database rejects the query with a syntax error).
ToTsQuery(s) ==
    LET parts == SplitOn(s, "&")
        ops == [i \in 1..Len(parts) |-> TsOperand(parts[i])]
    IN [ops |-> ops, ok |-> \A i \in 1..Len(ops) : ops[i].lexeme # <<>>]

\* tsvector @@ tsquery: every operand is a word of the vector, or a prefix of
\* one when it carries the prefix flag.
TsMatch(vector, q) ==
    /\ q.ok
    /\ \A i \in 1..Len(q.ops) :
          \E w \in vector :
             IF q.ops[i].prefix THEN IsPrefix(q.ops[i].lexeme, w)
             ELSE q.ops[i].lexeme = w

(***************************************************************************)
(* Queries: what select(), join(), filter(), distinct() build.             *)
(***************************************************************************)

\* self.select(): SELECT user_profile.* with no join and no filter.
Select == [joins |-> <<>>, where |-> <<>>, distinct |-> FALSE, eager |-> FALSE]

\* One WHERE predicate; the predicates of a query are ANDed.
Pred(kind, table, field, values) ==
    [table |-> table, field |-> field, values |-> values, text |-> <<>>,
     kind |-> kind, conds |-> <<>>]
OrPred(conds) ==
    [table |-> "", field |-> "", values |-> {}, text |-> <<>>,
     kind |-> "or", conds |-> conds]
MatchPred(text) ==
    [table |-> "UserProfile", field |-> "__ts_vector__", values |-> {},
     text |-> text, kind |-> "match", conds |-> <<>>]

Filter(q, pred) == [q EXCEPT !.where = Append(@, pred)]
AddJoin(q, j) == [q EXCEPT !.joins = Append(@, j)]

\* An education join that forgets the is_current and deleted conditions.
AnyEducationJoin(full) ==
    [table_id |-> "profile_id", profile_col |-> "id", not_deleted |-> FALSE,
     current |-> FALSE, table |-> "Education", full |-> full]

\* The join every lookup and get_suggested_users use, and, as a FULL join,
\* _add_education_query: the profile's current, non-deleted Education rows.
CurrentEducationJoin(full) ==
    [table_id |-> "profile_id", profile_col |-> "id", not_deleted |-> TRUE,
     current |-> TRUE, table |-> "Education", full |-> full]

\* outerjoin(Education) with no ON clause: the relationship's foreign key alone.
PlainEducationJoin ==
    [table_id |-> "profile_id", profile_col |-> "id", not_deleted |-> FALSE,
     current |-> FALSE, table |-> "Education", full |-> FALSE]

\* Whether WHERE predicate w is true of joined row r (NULL is not true).
WhereTrue(w, r) ==
    CASE w.kind = "in"    -> CondTrue(w, r)
      [] w.kind = "notin" -> /\ r[w.table] # Null
                             /\ r[w.table][w.field] # NullStr
                             /\ r[w.table][w.field] \notin w.values
      [] w.kind = "or"    -> \E i \in 1..Len(w.conds) : CondTrue(w.conds[i], r)
      [] w.kind = "match" -> /\ r["UserProfile"] # Null
                             /\ TsMatch(r["UserProfile"]["__ts_vector__"],
                                        ToTsQuery(w.text))

\* Whether the database rejects the query: a tsquery it cannot parse.
QueryFails(q) ==
    \E i \in 1..Len(q.where) :
        q.where[i].kind = "match" /\ ~ToTsQuery(q.where[i].text).ok

\* The joined rows the WHERE clause keeps.
QueryRows(q, store) ==
    { r \in FromRows({ BaseRow(p) : p \in store["UserProfile"] }, q.joins, store) :
        \A i \in 1..Len(q.where) : WhereTrue(q.where[i], r) }

\* The select list: the profile, and the Education row under contains_eager.
Project(q, r) ==
    [UserProfile |-> r["UserProfile"],
     Education |-> IF q.eager THEN r["Education"] ELSE Null]

\* The rows the query returns: the joined rows, or with DISTINCT the distinct
\* values of the select list.  (Joined rows differ in the rows they join, so a
\* set of them stands for SQL's bag.)
ResultRows(q, store) ==
    IF q.distinct THEN { Project(q, r) : r \in QueryRows(q, store) }
    ELSE QueryRows(q, store)

\* SELECT count(user_profile.id): the joined rows with a profile.  DISTINCT on
\* a query whose only column is the aggregate has one row to work on, so the
\* count is taken before it.
CountRows(q, store) ==
    Cardinality({ r \in QueryRows(q, store) : r["UserProfile"] # Null })

Min(a, b) == IF a <= b THEN a ELSE b

\* The sort key of ORDER BY created_at DESC.  Every query of this module
\* requires a profile column to be non-NULL, so every row has a profile.
CreatedAtKey(r) == r["UserProfile"]["created_at"]

\* Every order the database may return the rows of S in under ORDER BY
\* created_at DESC: rows with equal keys come in any order.
RECURSIVE Orderings(_)
Orderings(S) ==
    IF S = {} THEN { <<>> }
    ELSE LET first == { r \in S : \A o \in S : CreatedAtKey(r) >= CreatedAtKey(o) }
         IN UNION { { <<r>> \o s : s \in Orderings(S \ {r}) } : r \in first }

\* Every order the database may return the rows of S in with no ORDER BY.
RECURSIVE AnyOrder(_)
AnyOrder(S) ==
    IF S = {} THEN { <<>> }
    ELSE UNION { { <<r>> \o s : s \in AnyOrder(S \ {r}) } : r \in S }

\* LIMIT page_size OFFSET (page - 1) * page_size on ordered rows s.
Window(s, page, page_size) ==
    SubSeq(s, (page - 1) * page_size + 1, Min(Len(s), page * page_size))

\* The ORM object of profile p loaded from rows s: the profile's columns and,
\* under contains_eager, the Education rows s joins to it.
OrmObject(p, s) ==
    [c \in DOMAIN p \cup {"educations"} |->
        IF c = "educations"
        THEN { s[i]["Education"] :
                 i \in { k \in 1..Len(s) : /\ s[k]["UserProfile"] = p
                                           /\ s[k]["Education"] # Null } }
        ELSE p[c]]

\* result.scalars().unique().all(): the distinct profiles of rows s in the
\* order of their first row, each loaded from all of s.
RECURSIVE UniqueProfiles(_, _)
UniqueProfiles(s, seen) ==
    IF s = <<>> THEN <<>>
    ELSE IF Head(s)["UserProfile"] \in seen
         THEN UniqueProfiles(Tail(s), seen)
         ELSE <<Head(s)["UserProfile"]>>
              \o UniqueProfiles(Tail(s), seen \cup {Head(s)["UserProfile"]})

ScalarsUniqueAll(s) ==
    LET ps == UniqueProfiles(s, {})
    IN [i \in 1..Len(ps) |-> OrmObject(ps[i], s)]

\* result.scalars().first(): the profile of the first row, loaded from that
\* row alone; Null when there is no row.
ScalarsFirst(s) ==
    IF s = <<>> THEN Null
    ELSE OrmObject(s[1]["UserProfile"], <<s[1]>>)

(***************************************************************************)
(* Entities and ORM rows.                                                  *)
(***************************************************************************)

\* The fields of UserProfileProps a caller sets; educations is the relation.
SettableFields == {"id", "user_id", "profile_type", "parent_code", "created_at"}

\* A dict that also leaves out parent_code.
EntityDictWithoutParentCode(entity) ==
    [f \in DOMAIN entity \ {"educations", "parent_code"} |-> entity[f]]

\* entity.dict(exclude={"educations"})
EntityDict(entity) == [f \in DOMAIN entity \ {"educations"} |-> entity[f]]

\* self._table(**entity_dict) as the table stores it: the given columns, NULL
\* for a column not given, and the search vector, which the database
\* maintains (empty for a row this module writes).
TableRow(entity_dict) ==
    [c \in SettableFields \cup {"__ts_vector__"} |->
        IF c = "__ts_vector__" THEN {}
        ELSE IF c \in DOMAIN entity_dict THEN entity_dict[c] ELSE NullStr]

\* self._entity.from_orm(obj): the entity's fields read off the ORM object.
FromOrm(obj) == [f \in SettableFields \cup {"educations"} |-> obj[f]]

(***************************************************************************)
(* The queries of the read operations.                                     *)
(***************************************************************************)

\* get_by_user_id, get_profile_by_id, get_by_parent_code, get_profiles: the
\* profiles whose column is among values, with their current education.
LookupQuery(field, values) ==
    [Filter(AddJoin(Select, CurrentEducationJoin(FALSE)),
            Pred("in", "UserProfile", field, values))
       EXCEPT !.eager = TRUE]

\* get_suggested_users' query.
SuggestedQuery(user_id, include_profile_ids, exclude_profile_ids, text) ==
    LET q0 == [AddJoin(Filter(Select,
                              Pred("notin", "UserProfile", "user_id", {user_id})),
                       CurrentEducationJoin(FALSE))
                 EXCEPT !.eager = TRUE]
        q1 == IF text # <<>>
              THEN Filter(q0, MatchPred(SuggestedTsQueryText(text)))
              ELSE q0
        q2 == IF include_profile_ids # {}
              THEN Filter(q1, Pred("in", "UserProfile", "id", include_profile_ids))
              ELSE q1
    IN IF exclude_profile_ids # {}
       THEN Filter(q2, Pred("notin", "UserProfile", "id", exclude_profile_ids))
       ELSE q2

\* PROFILE_QUERY_PARAMS_MAPPING: one entry on the profile table, one on a
\* related table joined by profile_id, one joined by user_id under match_id,
\* and one empty entry (a karma-tag parameter).
PROFILE_QUERY_PARAMS_MAPPING ==
    << [table |-> "UserProfile", names |-> <<"PARENT_CODE">>, empty |-> FALSE,
        query_fields |-> <<"parent_code">>, match_id |-> Null],
       [table |-> "", names |-> <<"KARMA_TAG">>, empty |-> TRUE,
        query_fields |-> <<>>, match_id |-> Null],
       [table |-> "Award", names |-> <<"AWARD", "HONOR">>, empty |-> FALSE,
        query_fields |-> <<"name">>, match_id |-> Null],
       [table |-> "CollegeUniversities", names |-> <<"COLLEGE">>, empty |-> FALSE,
        query_fields |-> <<"name">>, match_id |-> [table_id |-> "user_id"]] >>

\* query_param += getattr(search_user_params, name), for each name.
RECURSIVE QueryParam(_, _)
QueryParam(names, search_user_params) ==
    IF names = <<>> THEN {}
    ELSE search_user_params[Head(names)]
         \cup QueryParam(Tail(names), search_user_params)

\* conditions.append(field.in_(query_param)) for each name of query_fields.
FieldConditions(table, query_fields, query_param) ==
    [i \in 1..Len(query_fields) |->
        [table |-> table, field |-> query_fields[i], values |-> query_param]]

\* An entry join that forgets the deleted != True condition.
EntryJoinWithDeleted(param) ==
    [table_id |-> IF param.match_id = Null THEN "profile_id"
                  ELSE param.match_id.table_id,
     profile_col |-> IF param.match_id = Null THEN "id" ELSE "user_id",
     not_deleted |-> FALSE,
     current |-> FALSE, table |-> param.table, full |-> TRUE]

\* The join of one mapping entry on a related table: FULL OUTER, on the
\* entry's key and deleted != True.
EntryJoin(param) ==
    [table_id |-> IF param.match_id = Null THEN "profile_id"
                  ELSE param.match_id.table_id,
     profile_col |-> IF param.match_id = Null THEN "id" ELSE "user_id",
     not_deleted |-> TRUE,
     current |-> FALSE, table |-> param.table, full |-> TRUE]

\* The for-loop of get_searched_users over the non-empty mapping entries:
\* acc.query is None (Null) or the query joined so far, acc.conditions the
\* conditions collected so far.
RECURSIVE SearchLoop(_, _, _)
SearchLoop(entries, search_user_params, acc) ==
    IF entries = <<>> THEN acc
    ELSE LET param == Head(entries)
             query_param == QueryParam(param.names, search_user_params)
             conds == acc.conditions
                      \o FieldConditions(param.table, param.query_fields, query_param)
         IN IF query_param = {}
            THEN SearchLoop(Tail(entries), search_user_params, acc)
            ELSE IF param.table = "UserProfile"
            THEN SearchLoop(Tail(entries), search_user_params,
                            [acc EXCEPT !.conditions = conds])
            ELSE SearchLoop(Tail(entries), search_user_params,
                            [conditions |-> conds,
                             query |-> AddJoin(IF acc.query = Null THEN Select
                                               ELSE acc.query,
                                               EntryJoin(param))])

\* dict((k, v) for k, v in PROFILE_QUERY_PARAMS_MAPPING.items() if v)
IsNotEmptyEntry(e) == ~e.empty
NonEmptyEntries == SelectSeq(PROFILE_QUERY_PARAMS_MAPPING, IsNotEmptyEntry)

\* _add_education_query
AddEducationQuery(obj, query_param) ==
    [Filter(AddJoin(Filter(obj, Pred("in", "UserProfile", "profile_type",
                                     {"STUDENT"})),
                    CurrentEducationJoin(TRUE)),
            Pred("in", "Education", "institution_id", query_param))
       EXCEPT !.eager = TRUE]

\* The branch of get_searched_users with no SCHOOL value: STUDENT profiles,
\* outer-joined with Education for eager loading.
StudentsWithEducation(obj) ==
    [AddJoin(Filter(obj, Pred("in", "UserProfile", "profile_type", {"STUDENT"})),
             PlainEducationJoin)
       EXCEPT !.eager = TRUE]

\* get_searched_users' query, as handed to paginate_users.
SearchedQuery(search_user_params) ==
    LET loop == SearchLoop(NonEmptyEntries, search_user_params,
                           [conditions |-> <<>>, query |-> Null])
        q0 == IF loop.conditions # <<>>
              THEN Filter(IF loop.query = Null THEN Select ELSE loop.query,
                          OrPred(loop.conditions))
              ELSE loop.query
        query_param == search_user_params["SCHOOL"]
        q1 == IF query_param # {}
              THEN AddEducationQuery(IF q0 = Null THEN Select ELSE q0, query_param)
              ELSE StudentsWithEducation(IF q0 = Null THEN Select ELSE q0)
    IN [q1 EXCEPT !.distinct = TRUE]

(***************************************************************************)
(* Callers and their coroutines.                                           *)
(***************************************************************************)

Callers == {"c1", "c2"}

\* What a coroutine holds: the operation, its arguments, the query it built,
\* and the locals of paginate_users (count_at_fetch records, for the claims,
\* how many rows matched when the page was read).
NoReq ==
    [page |-> 0, page_size |-> 0, query |-> Null, op |-> "", args |-> Null,
     results |-> <<>>, count_at_fetch |-> 0]

\* How an operation ended: its outcome, the value or items and total it
\* returned, and (for the claims) the create_profile it directly follows.
NoRes == [outcome |-> "none", value |-> Null, items |-> <<>>, total |-> 0,
          follows |-> Null]

Request(op, args, query, page, page_size) ==
    [page |-> page, page_size |-> page_size, query |-> query, op |-> op,
     args |-> args, results |-> <<>>, count_at_fetch |-> 0]

\* async with self._db_session() as session: the coroutine of caller c
\* starts, acquires a session and suspends at its first statement.
Enter(c, r, at) ==
    /\ pc[c] \in {"idle", "done"}
    /\ req' = [req EXCEPT ![c] = r]
    /\ session' = [session EXCEPT ![c] = @ + 1]
    /\ executed' = [executed EXCEPT ![c] = 0]
    /\ res' = [res EXCEPT ![c] = NoRes]
    /\ pc' = [pc EXCEPT ![c] = at]
    /\ UNCHANGED <<db, lastCreate>>

\* Leaving the async with block, by return or by exception: the session is
\* released.
ExitSession(c) == session' = [session EXCEPT ![c] = @ - 1]

\* The operation of caller c ends with result r and leaves the async with
\* block; created is the entity when it is a create_profile that committed,
\* and Null otherwise.
Finish(c, r, created) ==
    /\ res' = [res EXCEPT ![c] = [r EXCEPT !.follows = lastCreate]]
    /\ lastCreate' = created
    /\ pc' = [pc EXCEPT ![c] = "done"]
    /\ ExitSession(c)

\* An exception leaves the coroutine of caller c.
Raise(c, error) == Finish(c, [NoRes EXCEPT !.outcome = error], Null)

\* execute() or commit() fails in the storage layer; the exception propagates.
StorageFailure(c) ==
    /\ Raise(c, "StorageError")
    /\ executed' = [executed EXCEPT ![c] = @ + 1]
    /\ UNCHANGED <<db, req>>

(***************************************************************************)
(* Lookups.                                                                *)
(***************************************************************************)

get_by_user_id(c, user_id) ==
    Enter(c, Request("get_by_user_id", user_id,
                     LookupQuery("user_id", {user_id}), 0, 0), "first")

get_profile_by_id(c, id) ==
    Enter(c, Request("get_profile_by_id", id, LookupQuery("id", {id}), 0, 0),
          "first")

get_by_parent_code(c, parent_code) ==
    Enter(c, Request("get_by_parent_code", parent_code,
                     LookupQuery("parent_code", {parent_code}), 0, 0),
          "first")

get_profiles(c, include_profile_ids) ==
    Enter(c, Request("get_profiles", include_profile_ids,
                     LookupQuery("id", include_profile_ids), 0, 0), "all")

\* result = await session.execute(query); obj = result.scalars().first();
\* return None or from_orm(obj).
ExecuteFirst(c) ==
    /\ pc[c] = "first"
    /\ \/ StorageFailure(c)
       \/ /\ \E s \in AnyOrder(ResultRows(req[c].query, db)) :
                LET obj == ScalarsFirst(s)
                IN Finish(c, IF obj = Null
                             THEN [NoRes EXCEPT !.outcome = "absent"]
                             ELSE [NoRes EXCEPT !.outcome = "ok",
                                                !.value = FromOrm(obj)],
                          Null)
          /\ executed' = [executed EXCEPT ![c] = @ + 1]
          /\ UNCHANGED <<db, req>>

\* results = await session.execute(query); return the from_orm of
\* results.scalars().unique().all().
ExecuteAll(c) ==
    /\ pc[c] = "all"
    /\ \/ StorageFailure(c)
       \/ /\ \E s \in AnyOrder(ResultRows(req[c].query, db)) :
                LET objs == ScalarsUniqueAll(s)
                IN Finish(c, [NoRes EXCEPT !.outcome = "ok",
                                           !.items = [i \in 1..Len(objs) |->
                                                         FromOrm(objs[i])]],
                          Null)
          /\ executed' = [executed EXCEPT ![c] = @ + 1]
          /\ UNCHANGED <<db, req>>

(***************************************************************************)
(* Writes.                                                                 *)
(***************************************************************************)

\* The profile table's constraints: the primary key id, and one profile per
\* user.
ViolatesConstraint(row, others) ==
    \E o \in others : o["id"] = row["id"] \/ o["user_id"] = row["user_id"]

create_profile(c, entity) ==
    Enter(c, Request("create_profile", entity, Null, 0, 0), "create_commit")

\* A commit that waits while another caller is between the two reads of
\* paginate_users (a lock around pagination).
CreateCommitWhenNoReader(c) ==
    LET row == TableRow(EntityDict(req[c].args))
    IN /\ pc[c] = "create_commit"
       /\ \A o \in Callers \ {c} : pc[o] # "count"
       /\ ~ViolatesConstraint(row, db["UserProfile"])
       /\ db' = [db EXCEPT !["UserProfile"] = @ \cup {row}]
       /\ Finish(c, [NoRes EXCEPT !.outcome = "ok"], req[c].args)
       /\ executed' = [executed EXCEPT ![c] = @ + 1]
       /\ UNCHANGED req

\* session.add(self._table(**entity_dict)); await session.commit(), when the
\* insert is accepted.
CreateCommit(c) ==
    LET row == TableRow(EntityDict(req[c].args))
    IN /\ pc[c] = "create_commit"
       /\ ~ViolatesConstraint(row, db["UserProfile"])
       /\ db' = [db EXCEPT !["UserProfile"] = @ \cup {row}]
       /\ Finish(c, [NoRes EXCEPT !.outcome = "ok"], req[c].args)
       /\ executed' = [executed EXCEPT ![c] = @ + 1]
       /\ UNCHANGED req

\* commit() raises: a constraint violation or any other storage failure.
CreateFails(c) ==
    /\ pc[c] = "create_commit"
    /\ StorageFailure(c)

update_profile(c, entity) ==
    Enter(c, Request("update_profile", entity, Null, 0, 0), "update_execute")

\* The rows UPDATE ... WHERE id = entity.id SET every column writes.
UpdatedRows(entity, rows) ==
    { [c \in DOMAIN r |-> IF c \in DOMAIN EntityDict(entity)
                           THEN EntityDict(entity)[c] ELSE r[c]] :
        r \in { o \in rows : o["id"] = entity["id"] } }

\* await session.execute(update ...): the statement runs in the session's
\* open transaction.
UpdateExecute(c) ==
    /\ pc[c] = "update_execute"
    /\ \/ StorageFailure(c)
       \/ /\ \A r \in UpdatedRows(req[c].args, db["UserProfile"]) :
                ~ViolatesConstraint(r, { o \in db["UserProfile"] :
                                           o["id"] # req[c].args["id"] })
          /\ pc' = [pc EXCEPT ![c] = "update_commit"]
          /\ executed' = [executed EXCEPT ![c] = @ + 1]
          /\ UNCHANGED <<db, req, session, res, lastCreate>>

\* await session.commit(): the update becomes visible.
UpdateCommit(c) ==
    /\ pc[c] = "update_commit"
    /\ \/ StorageFailure(c)
       \/ /\ \A r \in UpdatedRows(req[c].args, db["UserProfile"]) :
                ~ViolatesConstraint(r, { o \in db["UserProfile"] :
                                           o["id"] # req[c].args["id"] })
          /\ db' = [db EXCEPT !["UserProfile"] =
                      { o \in @ : o["id"] # req[c].args["id"] }
                      \cup UpdatedRows(req[c].args, @)]
          /\ Finish(c, [NoRes EXCEPT !.outcome = "ok"], Null)
          /\ executed' = [executed EXCEPT ![c] = @ + 1]
          /\ UNCHANGED req

(***************************************************************************)
(* Pagination and the two paged searches.                                  *)
(***************************************************************************)

paginate_users(c, query, page, page_size) ==
    Enter(c, Request("paginate_users", query, query, page, page_size), "paginate")

\* get_suggested_users builds its query and awaits paginate_users.
get_suggested_users(c, user_id, include_profile_ids, exclude_profile_ids, page, page_size, text) ==
    Enter(c, Request("get_suggested_users",
                     [text |-> text,
                      user_id |-> user_id,
                      include_profile_ids |-> include_profile_ids,
                      exclude_profile_ids |-> exclude_profile_ids],
                     SuggestedQuery(user_id, include_profile_ids,
                                    exclude_profile_ids, text),
                     page, page_size), "paginate")

\* get_searched_users builds its query and awaits paginate_users.
get_searched_users(c, page, page_size, search_user_params) ==
    Enter(c, Request("get_searched_users", search_user_params,
                     SearchedQuery(search_user_params), page, page_size),
          "paginate")

\* A validation that lets page 0 through (an off-by-one in the page check).
InvalidPageOffByOne(page, page_size) == page < 0 \/ page_size <= 0

\* The page arguments paginate_users raises DomainError on.
InvalidPage(page, page_size) == page <= 0 \/ page_size <= 0

\* A validation that raises before the session's block is entered, so that
\* nothing releases the session.
PaginateRejectsKeepsSession(c) ==
    /\ pc[c] = "paginate"
    /\ InvalidPage(req[c].page, req[c].page_size)
    /\ res' = [res EXCEPT ![c] = [NoRes EXCEPT !.outcome = "DomainError",
                                                !.follows = lastCreate]]
    /\ lastCreate' = Null
    /\ pc' = [pc EXCEPT ![c] = "done"]
    /\ UNCHANGED <<db, req, executed, session>>

\* if page <= 0: raise DomainError; if page_size <= 0: raise DomainError.
PaginateRejects(c) ==
    /\ pc[c] = "paginate"
    /\ InvalidPage(req[c].page, req[c].page_size)
    /\ Raise(c, "DomainError")
    /\ UNCHANGED <<db, req, executed>>

\* results = await session.execute(paginated_query): one statement reads the
\* page window from the database as committed now.
PaginateFetch(c) ==
    /\ pc[c] = "paginate"
    /\ ~InvalidPage(req[c].page, req[c].page_size)
    /\ \/ StorageFailure(c)
       \/ /\ ~QueryFails(req[c].query)
          /\ \E s \in Orderings(ResultRows(req[c].query, db)) :
                req' = [req EXCEPT
                          ![c].results =
                              ScalarsUniqueAll(Window(s, req[c].page,
                                                      req[c].page_size)),
                          ![c].count_at_fetch = CountRows(req[c].query, db)]
          /\ executed' = [executed EXCEPT ![c] = @ + 1]
          /\ pc' = [pc EXCEPT ![c] = "count"]
          /\ UNCHANGED <<db, session, res, lastCreate>>

\* The items a paged operation returns: paginate_users the ORM objects, the
\* searches their from_orm.
PageItems(op, results) ==
    IF op = "paginate_users" THEN results
    ELSE [i \in 1..Len(results) |-> FromOrm(results[i])]

\* total_result = await session.execute(count_query): a second statement
\* counts the rows of the database as committed now; the page is returned.
PaginateCount(c) ==
    /\ pc[c] = "count"
    /\ \/ StorageFailure(c)
       \/ /\ Finish(c, [NoRes EXCEPT
                          !.outcome = "ok",
                          !.items = PageItems(req[c].op, req[c].results),
                          !.total = CountRows(req[c].query, db)],
                    Null)
          /\ executed' = [executed EXCEPT ![c] = @ + 1]
          /\ UNCHANGED <<db, req>>

(***************************************************************************)
(* Rows and the inputs the specifications draw from.                       *)
(***************************************************************************)

ProfileRow(id, user_id, profile_type, parent_code, created_at, vector) ==
    [user_id |-> user_id, id |-> id, parent_code |-> parent_code,
     profile_type |-> profile_type, created_at |-> created_at,
     __ts_vector__ |-> vector]

EducationRow(id, profile_id, institution_id, is_current, deleted) ==
    [deleted |-> deleted, is_current |-> is_current, id |-> id,
     profile_id |-> profile_id, institution_id |-> institution_id]

AwardRow(id, profile_id, name, deleted) ==
    [deleted |-> deleted, id |-> id, profile_id |-> profile_id, name |-> name]

CollegeRow(id, user_id, name, deleted) ==
    [deleted |-> deleted, user_id |-> user_id, id |-> id, name |-> name]

Entity(id, user_id, profile_type, parent_code, created_at, educations) ==
    [user_id |-> user_id, id |-> id, parent_code |-> parent_code,
     profile_type |-> profile_type, created_at |-> created_at,
     educations |-> educations]

Database(profiles, educations, awards, colleges) ==
    [UserProfile |-> profiles, Education |-> educations, Award |-> awards,
     CollegeUniversities |-> colleges]

ProfileIds == {"p1", "p2"}
UserIds == {"u1", "u2"}
ProfileTypes == {"STUDENT", "PARENT"}
Institutions == {"s1", "s2"}

\* Page arguments, valid and not.
Pages == -1..MaxPage
PageSizes == 0..MaxPageSize

\* SearchUsersParams with nothing supplied.
NoParams ==
    [PARENT_CODE |-> {}, KARMA_TAG |-> {}, AWARD |-> {}, HONOR |-> {},
     COLLEGE |-> {}, SCHOOL |-> {}]

StartIdle ==
    /\ pc = [c \in Callers |-> "idle"]
    /\ req = [c \in Callers |-> NoReq]
    /\ session = [c \in Callers |-> 0]
    /\ executed = [c \in Callers |-> 0]
    /\ res = [c \in Callers |-> NoRes]
    /\ lastCreate = Null

\* The steps every coroutine of caller c can take once started.
Step(c) ==
    \/ ExecuteFirst(c)
    \/ ExecuteAll(c)
    \/ CreateCommit(c)
    \/ CreateFails(c)
    \/ UpdateExecute(c)
    \/ UpdateCommit(c)
    \/ PaginateRejects(c)
    \/ PaginateFetch(c)
    \/ PaginateCount(c)

(***************************************************************************)
(* Spec: one caller runs every public operation, one after the other.      *)
(***************************************************************************)

JaneDoe == ProfileRow("p1", "u1", "STUDENT", "c1", 1, { <<"a">>, <<"b">> })

RepoEducations ==
    LET current == EducationRow("e1", "p1", "s1", TRUE, FALSE)
        former  == EducationRow("e2", "p1", "s2", FALSE, FALSE)
        deleted == EducationRow("e3", "p1", "s1", TRUE, TRUE)
    IN { {}, {current}, {current, former}, {current, deleted} }

RepoEntities ==
    { Entity(id, u, t, "c1", 2, {}) :
        id \in ProfileIds, u \in UserIds, t \in ProfileTypes }

\* Queries for direct calls of paginate_users: one with a text filter, one
\* that joins Education for eager loading.
RepoQueries ==
    { SuggestedQuery("u2", {}, {"p2"}, <<"a">>), SearchedQuery(NoParams) }

\* Arguments of get_suggested_users: include and exclude lists, and text.
SuggestedArgs ==
    { <<{}, {}, <<>>>>, <<{}, {"p2"}, <<"a">>>>, <<{"p1"}, {}, <<"b">>>> }

Init ==
    /\ StartIdle
    /\ \E ps \in { {}, {JaneDoe} }, es \in RepoEducations :
          /\ (ps = {} => es = {})
          /\ db = Database(ps, es, { AwardRow("a1", "p1", "x", FALSE) }, {})

Call(c) ==
    \/ \E u \in UserIds : get_by_user_id(c, u)
    \/ \E id \in ProfileIds : get_profile_by_id(c, id)
    \/ \E code \in {"c1", "c2"} : get_by_parent_code(c, code)
    \/ \E ids \in SUBSET ProfileIds : get_profiles(c, ids)
    \/ \E e \in RepoEntities : create_profile(c, e)
    \/ \E e \in RepoEntities : update_profile(c, e)
    \/ \E q \in RepoQueries, p \in Pages, n \in PageSizes :
          paginate_users(c, q, p, n)
    \/ \E a \in SuggestedArgs, p \in Pages, n \in PageSizes :
          get_suggested_users(c, "u2", a[1], a[2], p, n, a[3])
    \/ \E s \in { {}, {"s1"} }, p \in Pages, n \in PageSizes :
          get_searched_users(c, p, n, [NoParams EXCEPT !.SCHOOL = s])

Next == Call("c1") \/ Step("c1")

Spec == Init /\ [][Next]_vars

(***************************************************************************)
(* SpecSchool: get_searched_users over databases that vary in education    *)
(* rows, with and without a SCHOOL filter.                                 *)
(***************************************************************************)

ValidPages == 1..MaxPage
ValidPageSizes == 1..MaxPageSize

\* Education rows of either profile at either institution: current, former
\* (not current) or soft-deleted.  The primary key is a value unique to the
\* row.
EducationUniverse ==
    { EducationRow(<<p, s, st>>, p, s, st # "former", st = "deleted") :
        p \in ProfileIds, s \in Institutions,
        st \in {"current", "former", "deleted"} }

SchoolDatabases ==
    { Database({ JaneDoe, ProfileRow("p2", "u2", t, "c2", 2, {}) }, es,
               { AwardRow("a1", "p1", "x", FALSE) }, {}) :
        t \in ProfileTypes,
        es \in { x \in SUBSET EducationUniverse :
                   Cardinality(x) <= MaxEducations } }

SchoolParams ==
    { [NoParams EXCEPT !.SCHOOL = s, !.AWARD = a] :
        s \in SUBSET Institutions, a \in { {}, {"x"} } }

InitSchool == StartIdle /\ db \in SchoolDatabases

NextSchool ==
    \/ /\ pc["c1"] = "idle"
       /\ \E p \in ValidPages, n \in ValidPageSizes, params \in SchoolParams :
             get_searched_users("c1", p, n, params)
    \/ PaginateFetch("c1")
    \/ PaginateCount("c1")

SpecSchool == InitSchool /\ [][NextSchool]_vars

(***************************************************************************)
(* SpecFilter: get_searched_users over databases that vary in the rows of  *)
(* the related tables, under every combination of supplied parameters.     *)
(***************************************************************************)

AwardUniverse ==
    { AwardRow(<<p, n, d>>, p, n, d) :
        p \in ProfileIds, n \in {"x", "y"}, d \in BOOLEAN }

CollegeUniverse ==
    { CollegeRow(<<u, d>>, u, "k", d) : u \in UserIds, d \in BOOLEAN }

FilterDatabases ==
    { Database({ ProfileRow("p1", "u1", t, "c1", 1, {}),
                 ProfileRow("p2", "u2", "STUDENT", "c2", 2, {}) },
               { EducationRow("e1", "p1", "s1", TRUE, FALSE) }, as, ks) :
        t \in ProfileTypes,
        as \in { x \in SUBSET AwardUniverse : Cardinality(x) <= MaxAwards },
        ks \in { x \in SUBSET CollegeUniverse : Cardinality(x) <= 1 } }

FilterParams ==
    { [NoParams EXCEPT !.PARENT_CODE = c, !.AWARD = a, !.HONOR = h,
                       !.COLLEGE = k, !.SCHOOL = s] :
        c \in { {}, {"c1"} }, a \in { {}, {"x"} }, h \in { {}, {"y"} },
        k \in { {}, {"k"} }, s \in { {}, {"s1"} } }

InitFilter == StartIdle /\ db \in FilterDatabases

NextFilter ==
    \/ /\ pc["c1"] = "idle"
       /\ \E p \in ValidPages, params \in FilterParams :
             get_searched_users("c1", p, MaxPageSize, params)
    \/ PaginateFetch("c1")
    \/ PaginateCount("c1")

SpecFilter == InitFilter /\ [][NextFilter]_vars

(***************************************************************************)
(* SpecText: get_suggested_users over free text and indexed documents.     *)
(***************************************************************************)

\* The characters text is drawn from: alphanumerics, a kept punctuation
\* mark, the space, and a character the sanitizer drops.
Chars == {"a", "b", "-", " ", "!"}

Texts == UNION { [1..n -> Chars] : n \in 0..MaxTextLen }

\* The words a profile's search vector may index.
Words == { <<"a">>, <<"a", "b">>, <<"b", "b">> }

TextDatabases ==
    { Database({ ProfileRow("p1", "u1", "STUDENT", "c1", 1, v),
                 ProfileRow("p2", "u2", "STUDENT", "c2", 2, { <<"b">> }) },
               {}, {}, {}) :
        v \in SUBSET Words }

InitText == StartIdle /\ db \in TextDatabases

NextText ==
    \/ /\ pc["c1"] = "idle"
       /\ \E t \in Texts :
             get_suggested_users("c1", "u9", {}, {}, 1, MaxPageSize, t)
    \/ PaginateFetch("c1")
    \/ PaginateCount("c1")

SpecText == InitText /\ [][NextText]_vars

(***************************************************************************)
(* SpecCreate: one caller creates and updates profiles and looks them up   *)
(* by user id.                                                             *)
(***************************************************************************)

CreateEntities ==
    { Entity(id, u, t, code, at, es) :
        id \in ProfileIds, u \in UserIds, t \in ProfileTypes,
        code \in {"c1", NullStr}, at \in {2},
        es \in { {}, { EducationRow("e9", "p2", "s1", TRUE, FALSE) } } }

InitCreate ==
    /\ StartIdle
    /\ \E ps \in { {}, {JaneDoe} } :
          db = Database(ps, { EducationRow("e1", "p1", "s1", TRUE, FALSE) }, {}, {})

NextCreate ==
    \/ \E e \in CreateEntities : create_profile("c1", e)
    \/ \E e \in RepoEntities : update_profile("c1", e)
    \/ \E u \in UserIds : get_by_user_id("c1", u)
    \/ CreateCommit("c1")
    \/ CreateFails("c1")
    \/ UpdateExecute("c1")
    \/ UpdateCommit("c1")
    \/ ExecuteFirst("c1")

SpecCreate == InitCreate /\ [][NextCreate]_vars

(***************************************************************************)
(* SpecConcurrent: caller c1 pages through the STUDENT profiles while      *)
(* caller c2 creates and updates profiles.                                 *)
(***************************************************************************)

ConcurrentEntities ==
    { Entity(id, IF id = "p1" THEN "u1" ELSE "u2", t, "c1", 2, {}) :
        id \in ProfileIds, t \in ProfileTypes }

InitConcurrent ==
    /\ StartIdle
    /\ \E ps \in { {}, {JaneDoe} } : db = Database(ps, {}, {}, {})

NextConcurrent ==
    \/ \E p \in ValidPages, n \in ValidPageSizes :
          get_searched_users("c1", p, n, NoParams)
    \/ PaginateFetch("c1")
    \/ PaginateCount("c1")
    \/ \E e \in ConcurrentEntities : create_profile("c2", e)
    \/ \E e \in ConcurrentEntities : update_profile("c2", e)
    \/ CreateCommit("c2")
    \/ CreateFails("c2")
    \/ UpdateExecute("c2")
    \/ UpdateCommit("c2")

SpecConcurrent == InitConcurrent /\ [][NextConcurrent]_vars

(***************************************************************************)
(* Claims.                                                                 *)
(***************************************************************************)

PagedOps == {"paginate_users", "get_suggested_users", "get_searched_users"}

Ended(c) == pc[c] = "done"
Returned(c) == pc[c] = "done" /\ res[c].outcome = "ok"

\* The ids of the profiles a paged operation returned.
ItemIds(c) == { res[c].items[i]["id"] : i \in 1..Len(res[c].items) }

\* The Education rows attached to the profiles caller c's operation returned.
Attached(c) ==
    (IF res[c].value = Null THEN {} ELSE res[c].value["educations"])
    \cup UNION { res[c].items[i]["educations"] : i \in 1..Len(res[c].items) }

\* The data model's invariant: at most one current, non-deleted Education row
\* per profile.
UniqueCurrentEducation ==
    \A e, f \in db["Education"] :
        ( /\ e.profile_id = f.profile_id
          /\ e.is_current /\ f.is_current
          /\ ~e.deleted /\ ~f.deleted ) => e = f

\* C1: a paged operation called with page < 1 or page_size < 1 executes no
\* statement (neither the windowed fetch nor the count), and once it has ended
\* it has ended with a DomainError: it never goes on with a clamped value.
C1_InvalidPageRejected ==
    \A c \in Callers :
        ( /\ req[c].op \in PagedOps
          /\ (req[c].page < 1 \/ req[c].page_size < 1) )
        => /\ executed[c] = 0
           /\ pc[c] \in {"paginate", "done"}
           /\ Ended(c) => res[c].outcome = "DomainError"

\* A search with a valid page and page_size 0 has been rejected before any
\* statement.
C1_Witness ==
    /\ Ended("c1")
    /\ req["c1"].op = "get_searched_users"
    /\ req["c1"].page = 1
    /\ req["c1"].page_size = 0
    /\ res["c1"].outcome = "DomainError"
    /\ executed["c1"] = 0

\* C2: with no concurrent write, a search returns at most page_size items and
\* its total is the number of results its base query has, whatever the page
\* window.
C2_TotalIsResultCount ==
    ( /\ Returned("c1")
      /\ req["c1"].op = "get_searched_users" )
    => /\ Len(res["c1"].items) <= req["c1"].page_size
       /\ res["c1"].total = Cardinality(ResultRows(req["c1"].query, db))

ReadOps ==
    {"get_by_user_id", "get_profile_by_id", "get_by_parent_code",
     "get_profiles", "get_suggested_users", "get_searched_users"}

\* C3: every Education row attached to a profile a read operation returned is
\* current and not deleted.
C3_OnlyCurrentEducationAttached ==
    \A c \in Callers :
        (Returned(c) /\ req[c].op \in ReadOps)
        => \A e \in Attached(c) : e.is_current /\ ~e.deleted

\* The number of STUDENT profiles.
Students == { p \in db["UserProfile"] : p.profile_type = "STUDENT" }

\* C4: a search with no value for any parameter returns the STUDENT profiles,
\* each counted once: total is their number and the page holds
\* min(page_size, remaining) distinct ones, whatever Education rows they have
\* (here: in a database that satisfies the data model's invariant).
C4_NoFilterPagesStudents ==
    ( /\ Returned("c1")
      /\ req["c1"].op = "get_searched_users"
      /\ req["c1"].args = NoParams
      /\ UniqueCurrentEducation )
    => LET remaining == Cardinality(Students)
                        - (req["c1"].page - 1) * req["c1"].page_size
       IN /\ res["c1"].total = Cardinality(Students)
          /\ Len(res["c1"].items)
               = Min(req["c1"].page_size, IF remaining > 0 THEN remaining ELSE 0)
          /\ Cardinality(ItemIds("c1")) = Len(res["c1"].items)
          /\ ItemIds("c1") \subseteq { p["id"] : p \in Students }

\* C5: every profile a search with a non-empty SCHOOL list returned has an
\* Education row that is current, not deleted, and at one of the listed
\* institutions, whether or not other parameters are supplied too.
C5_SchoolFilterRestricts ==
    ( /\ Returned("c1")
      /\ req["c1"].op = "get_searched_users"
      /\ req["c1"].args["SCHOOL"] # {} )
    => \A id \in ItemIds("c1") :
          \E e \in db["Education"] :
             /\ e.profile_id = id
             /\ e.is_current /\ ~e.deleted
             /\ e.institution_id \in req["c1"].args["SCHOOL"]

\* A search by school and award returned a profile, in a database where that
\* profile also has a former and a deleted education at listed institutions.
C5_Witness ==
    /\ Returned("c1")
    /\ req["c1"].op = "get_searched_users"
    /\ req["c1"].args["SCHOOL"] = {"s1"}
    /\ req["c1"].args["AWARD"] = {"x"}
    /\ ItemIds("c1") = {"p1"}
    /\ \E e \in db["Education"] :
          e.profile_id = "p2" /\ e.institution_id = "s1" /\ ~e.is_current

\* C6: a caller whose operation has returned or raised (or who has started
\* none) holds no open session.
C6_SessionReleased ==
    \A c \in Callers : pc[c] \in {"idle", "done"} => session[c] = 0

\* An update_profile whose commit failed has ended, with its session released.
C6_Witness ==
    /\ Ended("c1")
    /\ req["c1"].op = "update_profile"
    /\ res["c1"].outcome = "StorageError"
    /\ executed["c1"] = 2
    /\ session["c1"] = 0

\* C7: a get_by_user_id that directly follows a successful create_profile of
\* an entity with that user id and does not fail in storage returns a profile
\* equal to the entity in every settable field.
C7_CreateThenGet ==
    \A c \in Callers :
        ( /\ Ended(c)
          /\ req[c].op = "get_by_user_id"
          /\ res[c].follows # Null
          /\ res[c].outcome # "StorageError" )
        => ( res[c].follows["user_id"] = req[c].args
             => /\ res[c].outcome = "ok"
                /\ \A f \in SettableFields :
                      res[c].value[f] = res[c].follows[f] )

\* A lookup has returned the profile just created from an entity that has no
\* parent code and carries an education.
C7_Witness ==
    /\ Returned("c1")
    /\ req["c1"].op = "get_by_user_id"
    /\ res["c1"].follows # Null
    /\ res["c1"].follows["user_id"] = req["c1"].args
    /\ res["c1"].follows["parent_code"] = NullStr
    /\ res["c1"].follows["educations"] # {}
    /\ res["c1"].value["id"] = res["c1"].follows["id"]

\* The tokens of a text: its kept characters, split on whitespace.
Tokens(text) == Split(SelectSeq(text, IsKept))

\* C8: for non-empty text, get_suggested_users returns a profile of another
\* user if and only if every token of the text is a prefix of some word of
\* the profile's indexed text.
C8_EveryTokenIsPrefix ==
    ( /\ Returned("c1")
      /\ req["c1"].op = "get_suggested_users"
      /\ req["c1"].args.text # <<>>
      /\ Cardinality(db["UserProfile"]) <= req["c1"].page_size )
    => \A p \in db["UserProfile"] :
          p["id"] \in ItemIds("c1")
          <=> LET tokens == Tokens(req["c1"].args.text)
              IN \A i \in 1..Len(tokens) :
                    \E w \in p["__ts_vector__"] : IsPrefix(tokens[i], w)

\* The values supplied for a mapping entry: those of all its parameter names.
Supplied(e, params) == UNION { params[e.names[i]] : i \in 1..Len(e.names) }

\* Profile p has a value of the supplied list in a mapped column of its own
\* row, or of a non-deleted row of the entry's table linked to it by the
\* entry's key.
EntryMatches(p, e, params) ==
    LET fields == { e.query_fields[i] : i \in 1..Len(e.query_fields) }
    IN IF e.table = "UserProfile"
       THEN \E f \in fields : p[f] \in Supplied(e, params)
       ELSE \E r \in db[e.table] :
               /\ ~r.deleted
               /\ IF e.match_id = Null
                  THEN r.profile_id = p["id"]
                  ELSE r[e.match_id.table_id] = p["user_id"]
               /\ \E f \in fields : r[f] \in Supplied(e, params)

\* The mapping entries some value is supplied for.
SuppliedEntries(params) ==
    { e \in { PROFILE_QUERY_PARAMS_MAPPING[i] :
                i \in 1..Len(PROFILE_QUERY_PARAMS_MAPPING) } :
        ~e.empty /\ Supplied(e, params) # {} }

\* The STUDENT profiles that match some supplied entry.
Matches(params) ==
    { p["id"] : p \in { s \in Students :
                          \E e \in SuppliedEntries(params) :
                             EntryMatches(s, e, params) } }

\* C9: a search with values for some mapping entries and no SCHOOL value
\* returns only STUDENT profiles that match at least one supplied entry, by a
\* column of their own or of a non-deleted related row linked by the entry's
\* key; and its first page, when they all fit in it, holds every such profile.
\* Entries without values restrict nothing.
C9_SuppliedEntriesAreOred ==
    ( /\ Returned("c1")
      /\ req["c1"].op = "get_searched_users"
      /\ req["c1"].args["SCHOOL"] = {}
      /\ SuppliedEntries(req["c1"].args) # {} )
    => /\ ItemIds("c1") \subseteq Matches(req["c1"].args)
       /\ ( /\ req["c1"].page = 1
            /\ Cardinality(Matches(req["c1"].args)) <= req["c1"].page_size
            /\ \A e, f \in db["Education"] : e.profile_id = f.profile_id => e = f )
          => ItemIds("c1") = Matches(req["c1"].args)

\* A search by award and college returned the one profile that has a college
\* row under its user id, and not the STUDENT profile whose only award of the
\* requested name is soft-deleted.
C9_Witness ==
    /\ Returned("c1")
    /\ req["c1"].op = "get_searched_users"
    /\ req["c1"].page = 1
    /\ req["c1"].args["SCHOOL"] = {}
    /\ req["c1"].args["PARENT_CODE"] = {}
    /\ req["c1"].args["AWARD"] = {"x"}
    /\ req["c1"].args["COLLEGE"] = {"k"}
    /\ \E a \in db["Award"] : a.profile_id = "p2" /\ a.name = "x" /\ a.deleted
    /\ \A a \in db["Award"] : a.profile_id = "p1" => a.name # "x"
    /\ \E k \in db["CollegeUniversities"] : k.user_id = "u1" /\ ~k.deleted
    /\ ItemIds("c1") = {"p1"}

\* C10: no lock orders a writer's commit after a reader's pagination: while
\* caller c1 stands between the windowed fetch and the count, an insert of
\* caller c2 that meets the table's constraints can commit.
C10_CommitBetweenReads ==
    ( /\ pc["c1"] = "count"
      /\ pc["c2"] = "create_commit"
      /\ ~ViolatesConstraint(TableRow(EntityDict(req["c2"].args)),
                             db["UserProfile"]) )
    => ENABLED CreateCommit("c2")

\* A search has returned a total that is not the match count of the database
\* state its items were read from.
C10_Witness ==
    /\ Returned("c1")
    /\ req["c1"].op = "get_searched_users"
    /\ res["c1"].total # req["c1"].count_at_fetch
    /\ res["c1"].total = Cardinality(Students)

=============================================================================
